---- MODULE Spec2Model ----
(***************************************************************************)
(* Model of storage/seekable2 (ObjectStorage) and its internal gitdir      *)
(* package (GitDir): read-only access to loose objects, references and     *)
(* HEAD of a git directory.                                                *)
(*                                                                         *)
(* Strings that the code slices, trims or compares (HEAD content, names,   *)
(* hex hashes, paths) are sequences of one-character strings.  Hashes are  *)
(* 20-byte sequences.  Errors are records [fmt, prefix, name, cause]: the   *)
(* format (or fixed message), the leading %s argument when it is the HEAD  *)
(* error prefix, the %q argument and the message of the wrapped error.     *)
(* Diagnostic fmt.Println calls write to stdout only and are left out.     *)
(***************************************************************************)
EXTENDS Integers, Sequences, FiniteSets, TLC

VARIABLES
    fsys,      \* the git directory on disk: [head, refs, objects]
    dRefs,     \* GitDir.refs: address of a map in heap, 0 = nil
    heap,      \* the maps allocated by Refs: sequence of name -> Hash functions
    iters,     \* the ObjectSliceIter values allocated by Iter
    call,      \* the last operation called, with its inputs
    ret,       \* how it came back: [kind, val, err]
    pc,        \* concurrent specification: position of each goroutine
    gop,       \* concurrent specification: operation each goroutine runs
    gloc,      \* concurrent specification: locals of each goroutine
    gret,      \* concurrent specification: result of each goroutine
    crashed    \* concurrent specification: the runtime aborted the process

vars == <<fsys, dRefs, heap, iters, call, ret, pc, gop, gloc, gret, crashed>>

seqVars == <<fsys, dRefs, heap, iters, call, ret>>
concVars == <<pc, gop, gloc, gret, crashed>>

(***************************************************************************)
(* Bounds                                                                  *)
(***************************************************************************)
MaxPad == 1        \* whitespace characters around the HEAD content
NumHashes == 2     \* hashes in the pool
MaxIters == 2      \* iterators allocated in one behaviour
NumProcs == 2      \* goroutines sharing one handle

(***************************************************************************)
(* Strings                                                                 *)
(***************************************************************************)
symRefPrefix == <<"r", "e", "f", ":", " ">>
headRefPrefix == <<"H", "E", "A", "D", ":">>
headErrPrefix == "cannot get HEAD reference:"
symrefCapapability == "symref"

RootPath == <<"/", "r", "/", ".", "g", "i", "t">>
StrObjects == <<"o", "b", "j", "e", "c", "t", "s">>
RefColon == <<"r", "e", "f", ":">>
RefMain == <<"r", "e", "f", "s", "/", "h", "e", "a", "d", "s", "/", "m", "a", "i", "n">>
RefTag == <<"r", "e", "f", "s", "/", "t", "a", "g", "s", "/", "v", "1">>

WhiteSpace == {" ", "\n"}

IsSpace(c) == c \in {" ", "\n", "\t", "\r"}

RECURSIVE TrimLeft(_)
TrimLeft(s) ==
    IF s = <<>> THEN s
    ELSE IF IsSpace(Head(s)) THEN TrimLeft(Tail(s)) ELSE s

RECURSIVE TrimRight(_)
TrimRight(s) ==
    IF s = <<>> THEN s
    ELSE IF IsSpace(s[Len(s)]) THEN TrimRight(SubSeq(s, 1, Len(s) - 1)) ELSE s

TrimSpace(s) == TrimRight(TrimLeft(s))

HasPrefix(s, p) == Len(s) >= Len(p) /\ SubSeq(s, 1, Len(p)) = p

TrimPrefix(s, p) == IF HasPrefix(s, p) THEN SubSeq(s, Len(p) + 1, Len(s)) ELSE s

RECURSIVE Join(_)
Join(elems) ==
    IF Len(elems) = 1 THEN elems[1]
    ELSE elems[1] \o <<"/">> \o Join(Tail(elems))

(***************************************************************************)
(* Hashes                                                                  *)
(***************************************************************************)
HexDigits == <<"0", "1", "2", "3", "4", "5", "6", "7",
               "8", "9", "a", "b", "c", "d", "e", "f">>

ZeroHash == [i \in 1..20 |-> 0]

MkHash(k) == [i \in 1..20 |-> (k * 37 + i * 11) % 256]

HashPool == {MkHash(k) : k \in 1..NumHashes}

HashString(h) ==
    [i \in 1..(2 * Len(h)) |->
        IF i % 2 = 1 THEN HexDigits[(h[(i + 1) \div 2] \div 16) + 1]
                     ELSE HexDigits[(h[i \div 2] % 16) + 1]]

(***************************************************************************)
(* Errors                                                                  *)
(***************************************************************************)
Err(f, n, c) == [fmt |-> f, prefix |-> "", name |-> n, cause |-> c]

NilErr == Err("nil", <<>>, "")
ErrNotFound == Err("path not found", <<>>, "")
ErrNotExist == Err("file does not exist", <<>>, "")
ErrPermission == Err("permission denied", <<>>, "")
ErrInputOutput == Err("input/output error", <<>>, "")
ZlibErrHeader == Err("zlib: invalid header", <<>>, "")
ZlibErrChecksum == Err("zlib: invalid checksum", <<>>, "")
ErrUnexpectedEOF == Err("unexpected EOF", <<>>, "")
ErrNilDeref == Err("runtime error: invalid memory address or nil pointer dereference", <<>>, "")
ErrSymRefTargetNotFound == Err("symbolic reference target not found", <<>>, "")

IsNotExist(e) == e = ErrNotExist

Errorf(f, n, cause) == Err(f, n, cause.fmt)

\* fmt.Errorf(f, headErrPrefix, ...)
HeadErrorf(f, n, cause) ==
    [fmt |-> f, prefix |-> headErrPrefix, name |-> n,
     cause |-> IF cause = NilErr THEN "" ELSE cause.fmt]

Return(v, e) == [kind |-> "return", val |-> v, err |-> e]
Panic(e) == [kind |-> "panic", val |-> <<>>, err |-> e]

(***************************************************************************)
(* The git directory on disk                                               *)
(*   head    : [exists, data]  the HEAD file and its bytes                 *)
(*   refs    : for each name of RefFileNames, the loose reference file     *)
(*   objects : path -> zlib stream, for the loose object files that exist  *)
(***************************************************************************)
RefFileNames == <<RefMain, RefTag>>

RefNames == {RefFileNames[i] : i \in 1..Len(RefFileNames)}

NoRef == [kind |-> "absent", hash |-> ZeroHash, target |-> <<>>]
DirectRef(h) == [kind |-> "hash", hash |-> h, target |-> <<>>]
SymRef(t) == [kind |-> "sym", hash |-> ZeroHash, target |-> t]

NoHead == [exists |-> FALSE, data |-> <<>>]
HeadFile(d) == [exists |-> TRUE, data |-> d]

\* A zlib stream as the decompressor sees it: the result of the header
\* check, the bytes decoded before the end or the first error, the error
\* that ends the copy and the error of the close step.
Stream(h, d, c, z) == [hdr |-> h, data |-> d, copyErr |-> c, closeErr |-> z]

EmptyMap == <<>>

Put(m, k, v) == (k :> v) @@ m

(***************************************************************************)
(* package gitdir                                                          *)
(***************************************************************************)
\* fs.Stat: an injected fault wins, otherwise the path exists or not.
Stat(fs, path, fault) ==
    IF fault # NilErr THEN fault
    ELSE IF path \in DOMAIN fs.objects THEN NilErr ELSE ErrNotExist

ObjectfileBadSlice(fs, h, fault) ==
    LET hash == HashString(h)
        objFile == Join(<<RootPath, StrObjects, SubSeq(hash, 1, 2), SubSeq(hash, 2, 40)>>)
        err == Stat(fs, objFile, fault)
    IN  IF err # NilErr
        THEN IF IsNotExist(err)
             THEN Return([fs |-> "nil", path |-> <<>>], ErrNotFound)
             ELSE Return([fs |-> "nil", path |-> <<>>], err)
        ELSE Return([fs |-> "fs", path |-> objFile], NilErr)

Objectfile(fs, h, fault) ==
    LET hash == HashString(h)
        objFile == Join(<<RootPath, StrObjects, SubSeq(hash, 1, 2), SubSeq(hash, 3, 40)>>)
        err == Stat(fs, objFile, fault)
    IN  IF err # NilErr
        THEN IF IsNotExist(err)
             THEN Return([fs |-> "nil", path |-> <<>>], ErrNotFound)
             ELSE Return([fs |-> "nil", path |-> <<>>], err)
        ELSE Return([fs |-> "fs", path |-> objFile], NilErr)

\* The handle's refs field and the maps it can point to.
Handle(p, hp) == [refs |-> p, heap |-> hp]

\* A map replaced in d.refs is no longer reachable from the handle and is
\* collected: the live map, if any, moves to address 1.
Collect(st) ==
    IF st.refs = 0 THEN Handle(0, <<>>)
    ELSE Handle(1, <<st.heap[st.refs]>>)

RefsMakeKeep(st) ==
    IF st.refs = 0 THEN Handle(Len(st.heap) + 1, Append(st.heap, EmptyMap))
    ELSE Handle(Len(st.heap) + 1, Append(st.heap, st.heap[st.refs]))

\* d.refs = make(map[string]core.Hash)
RefsMake(st) == Handle(Len(st.heap) + 1, Append(st.heap, EmptyMap))

\* d.refs[name] = h
RefsStore(st, name, h) ==
    [st EXCEPT !.heap[st.refs] = Put(@, name, h)]

\* The trimmed content of a reference file is a hash or "ref: <name>"; a
\* symbolic reference is resolved to the hash of its target.
ReadHashFile(fs, name) ==
    LET c == fs.refs[name]
    IN  IF c.kind = "hash" THEN [err |-> NilErr, hash |-> c.hash]
        ELSE IF c.target \in RefNames /\ fs.refs[c.target].kind = "hash"
             THEN [err |-> NilErr, hash |-> fs.refs[c.target].hash]
             ELSE [err |-> ErrSymRefTargetNotFound, hash |-> ZeroHash]

\* One reference file of the walk: k-th name, read fault at file faultAt.
RefStep(st, fs, k, faultAt) ==
    LET n == RefFileNames[k]
    IN  IF fs.refs[n].kind = "absent" THEN [st |-> st, err |-> NilErr]
        ELSE IF faultAt = k THEN [st |-> st, err |-> ErrInputOutput]
        ELSE LET r == ReadHashFile(fs, n)
             IN  IF r.err # NilErr THEN [st |-> st, err |-> r.err]
                 ELSE [st |-> RefsStore(st, n, r.hash), err |-> NilErr]

RECURSIVE addRefsFromRefDir(_, _, _, _)
addRefsFromRefDir(st, fs, k, faultAt) ==
    IF k > Len(RefFileNames) THEN [st |-> st, err |-> NilErr]
    ELSE LET r == RefStep(st, fs, k, faultAt)
         IN  IF r.err # NilErr THEN r
             ELSE addRefsFromRefDir(r.st, fs, k + 1, faultAt)

Refs(st, fs, faultAt) ==
    LET s1 == RefsMake(st)
        r == addRefsFromRefDir(s1, fs, 1, faultAt)
    IN  IF r.err # NilErr
        THEN [st |-> r.st, ret |-> Return(0, r.err)]
        ELSE [st |-> r.st, ret |-> Return(r.st.refs, NilErr)]

\* common.Capabilities: capability name -> ordered values
NewCapabilities == <<>>
CapSet(c, name, v) == (name :> <<v>>) @@ c
Supports(c, name) == name \in DOMAIN c
CapGet(c, name) == c[name]

addSymRefCapabilityKeepPrefix(fs, cap, fault) ==
    IF ~fs.head.exists THEN [cap |-> cap, err |-> ErrNotExist]
    ELSE IF fault = "open" THEN [cap |-> cap, err |-> ErrPermission]
    ELSE IF fault = "read" THEN [cap |-> cap, err |-> ErrInputOutput]
    ELSE LET data == TrimSpace(fs.head.data)
             c == CapSet(cap, "symref", headRefPrefix \o data)
         IN  [cap |-> c,
              err |-> IF fault = "close" THEN ErrInputOutput ELSE NilErr]

addSymRefCapability(fs, cap, fault) ==
    IF ~fs.head.exists THEN [cap |-> cap, err |-> ErrNotExist]
    ELSE IF fault = "open" THEN [cap |-> cap, err |-> ErrPermission]
    ELSE IF fault = "read" THEN [cap |-> cap, err |-> ErrInputOutput]
    ELSE LET data == TrimSpace(fs.head.data)
             ref == TrimPrefix(data, symRefPrefix)
             c == CapSet(cap, "symref", headRefPrefix \o ref)
         IN  [cap |-> c,
              err |-> IF fault = "close" THEN ErrInputOutput ELSE NilErr]

Capabilities(fs, fault) ==
    LET r == addSymRefCapability(fs, NewCapabilities, fault)
    IN  Return(r.cap, r.err)

(***************************************************************************)
(* package seekable2                                                       *)
(***************************************************************************)
ObjectTypes == {"commit", "tree", "blob", "tag"}

NilObject == [type |-> "nil", size |-> 0, cont |-> <<>>]
NewObject(t, n, c) == [type |-> t, size |-> n, cont |-> c]

SetStoresHash(o) == Return(MkHash(1), NilErr)

\* Set: always the zero hash and a "not implemented yet" error.
Set(o) == Return(ZeroHash, Err("not implemented yet", <<>>, ""))

\* inflate(w, r): val is what was written to w.
\* zlib.NewReader returns a nil reader together with any error, so after a
\* swallowed ErrHeader both io.Copy(w, zr) and the deferred zr.Close() call
\* a method of a nil interface value, which panics.
\* err is the function's named result: the deferred close sets it only
\* when it is nil.
inflateCloseWins(s) ==
    IF s.hdr # NilErr /\ s.hdr # ZlibErrHeader
    THEN Return(<<>>, Errorf("zlib reading error: %s", <<>>, s.hdr))
    ELSE IF s.hdr = ZlibErrHeader
    THEN Panic(ErrNilDeref)
    ELSE Return(s.data, IF s.closeErr # NilErr THEN s.closeErr ELSE s.copyErr)

inflate(s) ==
    IF s.hdr # NilErr /\ s.hdr # ZlibErrHeader
    THEN Return(<<>>, Errorf("zlib reading error: %s", <<>>, s.hdr))
    ELSE IF s.hdr = ZlibErrHeader
    THEN Panic(ErrNilDeref)
    ELSE Return(s.data, IF s.copyErr = NilErr THEN s.closeErr ELSE s.copyErr)

readZip(s) == inflate(s)

readObject(s) ==
    LET r == readZip(s)
    IN  IF r.kind = "panic" THEN r
        ELSE IF r.err # NilErr THEN Return(NilObject, r.err)
        ELSE Return(NewObject("commit", Len(r.val), r.val), NilErr)

\* Get: every error path panics before its return statement.  The results
\* are unnamed, so the deferred f.Close() cannot change what is returned.
Get(fs, h, fault) ==
    LET loc == Objectfile(fs, h, IF fault = "stat" THEN ErrPermission ELSE NilErr)
    IN  IF loc.err # NilErr THEN Panic(loc.err)
        ELSE IF fault = "open" THEN Panic(ErrPermission)
        ELSE LET r == readObject(fs.objects[loc.val.path])
             IN  IF r.kind = "panic" THEN r
                 ELSE IF r.err # NilErr THEN Panic(r.err)
                 ELSE Return(r.val, NilErr)

\* core.NewObjectSliceIter(series)
NewObjectSliceIter(series) == [series |-> series, pos |-> 0]

LooseObjects(fs, t) ==
    LET paths == {q \in DOMAIN fs.objects : fs.objects[q].hdr = NilErr}
        RECURSIVE List(_)
        List(S) == IF S = {} THEN <<>>
                   ELSE LET q == CHOOSE x \in S : TRUE
                        IN  <<NewObject(t, Len(fs.objects[q].data), fs.objects[q].data)>>
                            \o List(S \ {q})
    IN  List(paths)

IterWalksObjects(fs, t) == NewObjectSliceIter(LooseObjects(fs, t))

\* Iter: the loop over the index is commented out, objects stays nil.
Iter(fs, t) == NewObjectSliceIter(<<>>)

\* The last value of the capability that starts with "HEAD:", stripped.
RECURSIVE HeadRefOf(_, _)
HeadRefOf(values, headRef) ==
    IF values = <<>> THEN headRef
    ELSE HeadRefOf(Tail(values),
                   IF HasPrefix(values[1], headRefPrefix)
                   THEN TrimPrefix(values[1], headRefPrefix)
                   ELSE headRef)

HeadTargetNoEmptyCheck(fs, fault) ==
    LET cap == Capabilities(fs, fault)
    IN  IF cap.err # NilErr
        THEN Return(<<>>, HeadErrorf("%s %s", <<>>, cap.err))
        ELSE IF ~Supports(cap.val, symrefCapapability)
        THEN Return(<<>>, HeadErrorf("%s symref capability not supported", <<>>, NilErr))
        ELSE Return(HeadRefOf(CapGet(cap.val, symrefCapapability), <<>>), NilErr)

\* First half of Head: from the capabilities to the name HEAD points to.
HeadTarget(fs, fault) ==
    LET cap == Capabilities(fs, fault)
    IN  IF cap.err # NilErr
        THEN Return(<<>>, HeadErrorf("%s %s", <<>>, cap.err))
        ELSE IF ~Supports(cap.val, symrefCapapability)
        THEN Return(<<>>, HeadErrorf("%s symref capability not supported", <<>>, NilErr))
        ELSE LET headRef == HeadRefOf(CapGet(cap.val, symrefCapapability), <<>>)
             IN  IF headRef = <<>>
                 THEN Return(<<>>, HeadErrorf("%s HEAD reference not found", <<>>, NilErr))
                 ELSE Return(headRef, NilErr)

HeadLookupNoError(m, headRef) ==
    IF headRef \in DOMAIN m THEN Return(m[headRef], NilErr)
    ELSE Return(ZeroHash, NilErr)

\* Second half of Head: head, ok := refs[headRef]
HeadLookup(m, headRef) ==
    IF headRef \in DOMAIN m THEN Return(m[headRef], NilErr)
    ELSE Return(ZeroHash, HeadErrorf("%s reference %q not found", headRef, NilErr))

\* Head on one goroutine: the handle after the call and the result.
StorageHead(st, fs, fault, faultAt) ==
    LET t == HeadTarget(fs, fault)
    IN  IF t.err # NilErr THEN [st |-> st, ret |-> Return(ZeroHash, t.err)]
        ELSE LET r == Refs(st, fs, faultAt)
             IN  IF r.ret.err # NilErr
                 THEN [st |-> r.st,
                       ret |-> Return(ZeroHash, HeadErrorf("%s %s", <<>>, r.ret.err))]
                 ELSE [st |-> r.st,
                       ret |-> HeadLookup(r.st.heap[r.ret.val], t.val)]

(***************************************************************************)
(* Inputs                                                                  *)
(***************************************************************************)
Hello == <<"h", "e", "l", "l", "o">>

Pads(n) == UNION {[1..k -> WhiteSpace] : k \in 0..n}

HeadPrefixes == {<<>>, symRefPrefix, RefColon}

HeadBodies == {<<>>, RefMain, RefTag, HashString(MkHash(1))}

\* HEAD contents: optional prefix, a body, at most MaxPad characters of
\* surrounding whitespace.
HeadDatas ==
    {l \o p \o b \o r : l \in Pads(MaxPad), r \in Pads(MaxPad),
                        p \in HeadPrefixes, b \in HeadBodies} \
    {l \o p \o b \o r : l \in Pads(MaxPad) \ {<<>>}, r \in Pads(MaxPad) \ {<<>>},
                        p \in HeadPrefixes, b \in HeadBodies}

HeadFiles == {NoHead} \cup {HeadFile(d) : d \in HeadDatas}

RefContents(n) ==
    {NoRef} \cup {DirectRef(h) : h \in HashPool}
            \cup {SymRef(t) : t \in RefNames \ {n}}

RefDirs == {rd \in [RefNames -> UNION {RefContents(n) : n \in RefNames}] :
               \A n \in RefNames : rd[n] \in RefContents(n)}

\* Layout of a loose object file: <root>/objects/<2 hex>/<38 hex>
LoosePath(h) ==
    LET hex == HashString(h)
    IN  RootPath \o <<"/">> \o StrObjects \o <<"/">> \o <<hex[1], hex[2]>>
                 \o <<"/">> \o [i \in 1..38 |-> hex[i + 2]]

FileStreams ==
    { Stream(NilErr, Hello, NilErr, NilErr),
      Stream(ZlibErrHeader, <<>>, NilErr, NilErr),
      Stream(ErrUnexpectedEOF, <<>>, NilErr, NilErr),
      Stream(NilErr, <<"h", "e">>, ZlibErrChecksum, ZlibErrChecksum) }

NoStream == Stream(NilErr, <<>>, NilErr, Err("absent", <<>>, ""))

ObjDirOf(a) ==
    LET present == {h \in HashPool : a[h] # NoStream}
    IN  [q \in {LoosePath(h) : h \in present} |->
            a[CHOOSE h \in present : LoosePath(h) = q]]

ObjDirs == {ObjDirOf(a) : a \in [HashPool -> FileStreams \cup {NoStream}]}

DefaultObjects ==
    ObjDirOf([h \in HashPool |->
                 IF h = MkHash(1) THEN Stream(NilErr, Hello, NilErr, NilErr)
                 ELSE NoStream])

DefaultHead == HeadFile(symRefPrefix \o RefMain \o <<"\n">>)

DefaultRefs ==
    [n \in RefNames |-> IF n = RefMain THEN DirectRef(MkHash(1))
                                       ELSE DirectRef(MkHash(NumHashes))]

StoredObjects == {NewObject("blob", Len(Hello), Hello), NewObject("commit", 0, <<>>)}

HeadFaults == {"none", "open", "read", "close"}

Procs == 1..NumProcs

NoLocals == [k |-> 0, headRef |-> <<>>, refs |-> 0]

NoCall == [op |-> "none", arg |-> <<>>, fault |-> "none", faultAt |-> 0]
Call(o, a, f, k) == [op |-> o, arg |-> a, fault |-> f, faultAt |-> k]

(***************************************************************************)
(* Sequential specification: one caller, one call at a time                *)
(***************************************************************************)
IdleProcs ==
    /\ pc = [g \in Procs |-> "idle"]
    /\ gop = [g \in Procs |-> "none"]
    /\ gloc = [g \in Procs |-> NoLocals]
    /\ gret = [g \in Procs |-> Return(0, NilErr)]
    /\ crashed = FALSE

\* The state after New: the root exists, d.refs is nil.
InitStore ==
    /\ dRefs = 0
    /\ heap = <<>>
    /\ iters = <<>>
    /\ call = NoCall
    /\ ret = Return(<<>>, NilErr)
    /\ IdleProcs

\* A repository with any loose objects of the pool.
Init ==
    /\ fsys \in [head : {DefaultHead}, refs : {DefaultRefs}, objects : ObjDirs]
    /\ InitStore

\* The address a call returned, after the collection of the replaced map.
Moved(r) == IF r.val = 0 THEN r ELSE Return(1, r.err)

RefsCall ==
    \E k \in 0..Len(RefFileNames) :
        LET r == Refs(Handle(dRefs, heap), fsys, k)
        IN  /\ call' = Call("Refs", <<>>, "none", k)
            /\ ret' = Moved(r.ret)
            /\ dRefs' = Collect(r.st).refs
            /\ heap' = Collect(r.st).heap
            /\ UNCHANGED <<fsys, iters>>
            /\ UNCHANGED concVars

CapabilitiesCall ==
    \E f \in HeadFaults :
        /\ call' = Call("Capabilities", <<>>, f, 0)
        /\ ret' = Capabilities(fsys, f)
        /\ UNCHANGED <<fsys, dRefs, heap, iters>>
        /\ UNCHANGED concVars

ObjectfileCall ==
    \E h \in HashPool, f \in {"none", "stat"} :
        /\ call' = Call("Objectfile", h, f, 0)
        /\ ret' = Objectfile(fsys, h, IF f = "stat" THEN ErrPermission ELSE NilErr)
        /\ UNCHANGED <<fsys, dRefs, heap, iters>>
        /\ UNCHANGED concVars

SetCall ==
    \E o \in StoredObjects :
        /\ call' = Call("Set", o, "none", 0)
        /\ ret' = Set(o)
        /\ UNCHANGED <<fsys, dRefs, heap, iters>>
        /\ UNCHANGED concVars

GetCall ==
    \E h \in HashPool, f \in {"none", "stat", "open", "close"} :
        /\ call' = Call("Get", h, f, 0)
        /\ ret' = Get(fsys, h, f)
        /\ UNCHANGED <<fsys, dRefs, heap, iters>>
        /\ UNCHANGED concVars

IterCall ==
    \E t \in ObjectTypes :
        /\ Len(iters) < MaxIters
        /\ call' = Call("Iter", t, "none", 0)
        /\ iters' = Append(iters, Iter(fsys, t))
        /\ ret' = Return(Len(iters) + 1, NilErr)
        /\ UNCHANGED <<fsys, dRefs, heap>>
        /\ UNCHANGED concVars

HeadCall ==
    \E f \in HeadFaults, k \in 0..Len(RefFileNames) :
        /\ f = "none" \/ k = 0
        /\ LET r == StorageHead(Handle(dRefs, heap), fsys, f, k)
           IN  /\ call' = Call("Head", <<>>, f, k)
               /\ ret' = r.ret
               /\ dRefs' = Collect(r.st).refs
               /\ heap' = Collect(r.st).heap
        /\ UNCHANGED <<fsys, iters>>
        /\ UNCHANGED concVars

Next ==
    \/ RefsCall
    \/ CapabilitiesCall
    \/ ObjectfileCall
    \/ SetCall
    \/ GetCall
    \/ IterCall
    \/ HeadCall

Spec == Init /\ [][Next]_vars

(***************************************************************************)
(* Reference side: any HEAD file and any loose references of the pools.    *)
(***************************************************************************)
InitHead ==
    /\ fsys \in [head : HeadFiles, refs : RefDirs, objects : {DefaultObjects}]
    /\ InitStore

NextHead ==
    \/ RefsCall
    \/ CapabilitiesCall
    \/ HeadCall

SpecHead == InitHead /\ [][NextHead]_vars

(***************************************************************************)
(* Decompression stage alone: inflate applied to any stream of the pool.   *)
(***************************************************************************)
ZlibOpenErrors == {NilErr, ZlibErrHeader, ErrUnexpectedEOF}
StreamErrors == {NilErr, ZlibErrChecksum, ErrInputOutput}

InflateStreams ==
    {Stream(h, d, c, z) : h \in ZlibOpenErrors, d \in {<<>>, <<"h", "e">>, Hello},
                          c \in StreamErrors, z \in StreamErrors}

Pending == [kind |-> "pending", val |-> <<>>, err |-> NilErr]

InitInflate ==
    /\ fsys = [head |-> DefaultHead, refs |-> DefaultRefs, objects |-> DefaultObjects]
    /\ dRefs = 0
    /\ heap = <<>>
    /\ iters = <<>>
    /\ \E s \in InflateStreams : call = Call("inflate", s, "none", 0)
    /\ ret = Pending
    /\ IdleProcs

InflateCall ==
    /\ call.op = "inflate"
    /\ ret = Pending
    /\ ret' = inflate(call.arg)
    /\ UNCHANGED <<fsys, dRefs, heap, iters, call>>
    /\ UNCHANGED concVars

NextInflate == InflateCall

SpecInflate == InitInflate /\ [][NextInflate]_vars

(***************************************************************************)
(* Concurrent specification: NumProcs goroutines share one handle and each *)
(* runs Refs() or Head() once, one statement at a time.  The accesses to   *)
(* d.refs and to the map are unsynchronised: the statements interleave,    *)
(* and the runtime may abort the process when it detects two goroutines    *)
(* in the same map at once.                                                *)
(***************************************************************************)
ConcHeads == {DefaultHead, HeadFile(symRefPrefix \o RefTag), HeadFile(<<>>)}

InitConc ==
    /\ fsys \in [head : ConcHeads, refs : RefDirs, objects : {DefaultObjects}]
    /\ dRefs = 0
    /\ heap = <<>>
    /\ iters = <<>>
    /\ call = NoCall
    /\ ret = Return(<<>>, NilErr)
    /\ IdleProcs

\* Entry of Refs().
StartRefs(g) ==
    /\ ~crashed
    /\ pc[g] = "idle"
    /\ gop' = [gop EXCEPT ![g] = "Refs"]
    /\ pc' = [pc EXCEPT ![g] = "make"]
    /\ UNCHANGED <<gloc, gret, crashed>>
    /\ UNCHANGED seqVars

\* Entry of Head(), up to the call of Refs().
StartHead(g) ==
    /\ ~crashed
    /\ pc[g] = "idle"
    /\ gop' = [gop EXCEPT ![g] = "Head"]
    /\ LET t == HeadTarget(fsys, "none")
       IN  IF t.err # NilErr
           THEN /\ gret' = [gret EXCEPT ![g] = Return(ZeroHash, t.err)]
                /\ pc' = [pc EXCEPT ![g] = "done"]
                /\ UNCHANGED gloc
           ELSE /\ gloc' = [gloc EXCEPT ![g].headRef = t.val]
                /\ pc' = [pc EXCEPT ![g] = "make"]
                /\ UNCHANGED gret
    /\ UNCHANGED crashed
    /\ UNCHANGED seqVars

\* d.refs = make(map[string]core.Hash)
MakeStep(g) ==
    /\ ~crashed
    /\ pc[g] = "make"
    /\ LET st == RefsMake(Handle(dRefs, heap))
       IN  /\ dRefs' = st.refs
           /\ heap' = st.heap
    /\ gloc' = [gloc EXCEPT ![g].k = 1]
    /\ pc' = [pc EXCEPT ![g] = "scan"]
    /\ UNCHANGED <<fsys, iters, call, ret, gop, gret, crashed>>

\* What Refs() hands to its caller when the scan fails.
RefsFailed(g, err) ==
    IF gop[g] = "Head" THEN Return(ZeroHash, HeadErrorf("%s %s", <<>>, err))
    ELSE Return(0, err)

\* One reference file of addRefsFromRefDir: d.refs[name] = hash
ScanStep(g) ==
    /\ ~crashed
    /\ pc[g] = "scan"
    /\ gloc[g].k <= Len(RefFileNames)
    /\ LET r == RefStep(Handle(dRefs, heap), fsys, gloc[g].k, 0)
       IN  IF r.err # NilErr
           THEN /\ gret' = [gret EXCEPT ![g] = RefsFailed(g, r.err)]
                /\ pc' = [pc EXCEPT ![g] = "done"]
                /\ UNCHANGED <<heap, gloc>>
           ELSE /\ heap' = r.st.heap
                /\ gloc' = [gloc EXCEPT ![g].k = @ + 1]
                /\ UNCHANGED <<pc, gret>>
    /\ UNCHANGED <<fsys, dRefs, iters, call, ret, gop, crashed>>

\* return d.refs, err
ReturnStep(g) ==
    /\ ~crashed
    /\ pc[g] = "scan"
    /\ gloc[g].k > Len(RefFileNames)
    /\ gloc' = [gloc EXCEPT ![g].refs = dRefs]
    /\ IF gop[g] = "Head"
       THEN /\ pc' = [pc EXCEPT ![g] = "lookup"]
            /\ UNCHANGED gret
       ELSE /\ pc' = [pc EXCEPT ![g] = "done"]
            /\ gret' = [gret EXCEPT ![g] = Return(dRefs, NilErr)]
    /\ UNCHANGED <<gop, crashed>>
    /\ UNCHANGED seqVars

\* head, ok := refs[headRef]
LookupStep(g) ==
    /\ ~crashed
    /\ pc[g] = "lookup"
    /\ gret' = [gret EXCEPT ![g] = HeadLookup(heap[gloc[g].refs], gloc[g].headRef)]
    /\ pc' = [pc EXCEPT ![g] = "done"]
    /\ UNCHANGED <<gop, gloc, crashed>>
    /\ UNCHANGED seqVars

\* Two goroutines are in the same map, one of them writing: the runtime may
\* stop the process ("concurrent map writes", "concurrent map read and map
\* write").
InMap(g, a) ==
    \/ pc[g] = "scan" /\ gloc[g].k <= Len(RefFileNames) /\ dRefs = a
    \/ pc[g] = "lookup" /\ gloc[g].refs = a

Writing(g, a) == pc[g] = "scan" /\ gloc[g].k <= Len(RefFileNames) /\ dRefs = a

Crash ==
    /\ ~crashed
    /\ \E g1 \in Procs, g2 \in Procs, a \in DOMAIN heap :
           g1 # g2 /\ Writing(g1, a) /\ InMap(g2, a)
    /\ crashed' = TRUE
    /\ UNCHANGED <<pc, gop, gloc, gret>>
    /\ UNCHANGED seqVars

NextConc ==
    \/ \E g \in Procs : StartRefs(g)
    \/ \E g \in Procs : StartHead(g)
    \/ \E g \in Procs : MakeStep(g)
    \/ \E g \in Procs : ScanStep(g)
    \/ \E g \in Procs : ReturnStep(g)
    \/ \E g \in Procs : LookupStep(g)
    \/ Crash

SpecConc == InitConc /\ [][NextConc]_vars

(***************************************************************************)
(* Properties                                                              *)
(***************************************************************************)
\* What the HEAD file holds once trimmed, and what is left of it after the
\* "ref: " prefix.
HeadData == TrimSpace(fsys.head.data)
HeadName == SubSeq(HeadData, Len(symRefPrefix) + 1, Len(HeadData))

\* HEAD was opened, read and closed without an I/O error by the last call.
HeadWasRead == fsys.head.exists /\ call.fault = "none"

\* The scan of the last call, run on its own from a fresh handle.
OwnScan == Refs(Handle(0, <<>>), fsys, call.faultAt)
ScanReturned == OwnScan.ret.err = NilErr
ScanMapping == OwnScan.st.heap[OwnScan.st.refs]

\* C1: when the trimmed HEAD content is "ref: R" with R not empty and the
\* mapping returned by Refs() maps R to H, Head() returns H and a nil
\* error, whatever the shape of R.
C1_HeadResolvesSymref ==
    (/\ call.op = "Head"
     /\ HeadWasRead
     /\ HasPrefix(HeadData, symRefPrefix)
     /\ HeadName # <<>>
     /\ ScanReturned
     /\ HeadName \in DOMAIN ScanMapping)
    => ret = Return(ScanMapping[HeadName], NilErr)

\* Head() resolved a HEAD that names a reference outside refs/heads/, with
\* whitespace after the name.
C1_Witness ==
    /\ call.op = "Head"
    /\ HeadWasRead
    /\ fsys.head.data = symRefPrefix \o RefTag \o <<"\n">>
    /\ ret = Return(MkHash(2), NilErr)

\* C2: when the name HEAD points to is not a key of the mapping returned by
\* Refs(), Head() returns the zero hash and the error "<prefix> reference
\* <name> not found" with the prefix "cannot get HEAD reference:" and the
\* quoted name.
C2_HeadTargetMissing ==
    (/\ call.op = "Head"
     /\ HeadWasRead
     /\ TrimPrefix(HeadData, symRefPrefix) # <<>>
     /\ ScanReturned
     /\ TrimPrefix(HeadData, symRefPrefix) \notin DOMAIN ScanMapping)
    => /\ ret.kind = "return"
       /\ ret.val = ZeroHash
       /\ ret.err.fmt = "%s reference %q not found"
       /\ ret.err.prefix = "cannot get HEAD reference:"
       /\ ret.err.name = TrimPrefix(HeadData, symRefPrefix)

\* HEAD names refs/heads/main, other references exist, that one does not.
C2_Witness ==
    /\ call.op = "Head"
    /\ HeadData = symRefPrefix \o RefMain
    /\ fsys.refs[RefMain].kind = "absent"
    /\ fsys.refs[RefTag].kind = "hash"
    /\ ret.val = ZeroHash
    /\ ret.err.name = RefMain

\* C3: Get of a hash whose loose object file does not exist returns a nil
\* object and ErrNotFound to its caller.
C3_GetReturnsNotFound ==
    (/\ call.op = "Get"
     /\ call.fault = "none"
     /\ LoosePath(call.arg) \notin DOMAIN fsys.objects)
    => ret = Return(NilObject, ErrNotFound)

\* C4: Objectfile succeeds exactly when the stat of
\* <root>/objects/<H[0:2]>/<H[2:40]> succeeds, and then returns the
\* filesystem and that path; a missing path gives ErrNotFound, any other
\* stat error comes back unchanged.
C4_ObjectfilePath ==
    call.op = "Objectfile" =>
        LET q == LoosePath(call.arg)
            nothing == [fs |-> "nil", path |-> <<>>]
        IN  /\ ret.kind = "return"
            /\ (call.fault = "none" /\ q \in DOMAIN fsys.objects)
                   => ret = Return([fs |-> "fs", path |-> q], NilErr)
            /\ (call.fault = "none" /\ q \notin DOMAIN fsys.objects)
                   => ret = Return(nothing, ErrNotFound)
            /\ call.fault = "stat" => ret = Return(nothing, ErrPermission)

\* Objectfile found the file of the second hash of the pool.
C4_Witness ==
    /\ call.op = "Objectfile"
    /\ call.arg = MkHash(2)
    /\ ret.err = NilErr
    /\ Len(ret.val.path) = Len(RootPath) + Len(StrObjects) + 43

\* C5: every Set returns the zero hash and the error "not implemented yet",
\* and changes neither the handle (its refs field and map), nor the
\* iterators, nor the directory on disk.
C5_SetFailsWithoutEffect ==
    [][call'.op = "Set" =>
         /\ ret' = Return(ZeroHash, Err("not implemented yet", <<>>, ""))
         /\ ret'.err # NilErr
         /\ UNCHANGED <<fsys, dRefs, heap, iters>>]_vars

\* Set was called on a store whose handle retains a reference map.
C5_Witness ==
    /\ call.op = "Set"
    /\ dRefs # 0
    /\ heap[dRefs] # EmptyMap
    /\ ret.val = ZeroHash

C7_HeaderErrorSwallowed ==
    (call.op = "inflate" /\ ret # Pending) =>
        /\ call.arg.hdr = ZlibErrHeader => ret.kind = "return"
        /\ (call.arg.hdr # NilErr /\ call.arg.hdr # ZlibErrHeader)
               => ret = Return(<<>>, Errorf("zlib reading error: %s", <<>>, call.arg.hdr))

\* C8: once the decompressor is open, inflate returns the copy error when
\* the copy failed, otherwise the close error when the close failed,
\* otherwise nil.
C8_CloseErrorComposes ==
    (call.op = "inflate" /\ ret # Pending /\ call.arg.hdr = NilErr) =>
        /\ ret.kind = "return"
        /\ call.arg.copyErr # NilErr => ret.err = call.arg.copyErr
        /\ (call.arg.copyErr = NilErr /\ call.arg.closeErr # NilErr)
               => ret.err = call.arg.closeErr
        /\ (call.arg.copyErr = NilErr /\ call.arg.closeErr = NilErr)
               => ret.err = NilErr

\* The copy and the close both failed, with different errors.
C8_Witness ==
    /\ call.op = "inflate"
    /\ ret # Pending
    /\ call.arg.hdr = NilErr
    /\ call.arg.copyErr = ZlibErrChecksum
    /\ call.arg.closeErr = ErrInputOutput
    /\ ret.err = ZlibErrChecksum

\* C9: every Refs() puts a new, empty map into d.refs before it scans,
\* leaving the maps of earlier calls as they are, and what it returns is
\* the map d.refs holds at the return.
C9_RefsReplacesSharedMap ==
    [][\A g \in Procs :
         /\ (pc[g] = "make" /\ pc'[g] = "scan") =>
                /\ dRefs' \notin DOMAIN heap
                /\ dRefs' \in DOMAIN heap'
                /\ heap'[dRefs'] = EmptyMap
                /\ \A a \in DOMAIN heap : heap'[a] = heap[a]
         /\ (pc[g] = "scan" /\ pc'[g] = "done" /\ gop[g] = "Refs"
                            /\ gret'[g].err = NilErr) =>
                gret'[g].val = dRefs
         /\ (pc[g] = "scan" /\ pc'[g] = "lookup") => gloc'[g].refs = dRefs]_vars

\* The complete mapping of a scan of the directory.
FullScan == Refs(Handle(0, <<>>), fsys, 0).st.heap[1]

\* A Refs() call returned without error a map that another call had put in
\* its place and had not filled yet: not the mapping of its own scan.
C9_Witness ==
    /\ ~crashed
    /\ \E g \in Procs :
           /\ gop[g] = "Refs"
           /\ pc[g] = "done"
           /\ gret[g].err = NilErr
           /\ heap[gret[g].val] # FullScan
           /\ \E g2 \in Procs : g2 # g /\ pc[g2] = "scan"

HeadNotFound == Return(ZeroHash, HeadErrorf("%s HEAD reference not found", <<>>, NilErr))
RefNotFound(n) == Return(ZeroHash, HeadErrorf("%s reference %q not found", n, NilErr))
RawHash == HashString(MkHash(1))

\* C10 as stated: a raw hash X in HEAD is looked up as a name and fails with
\* reference "X" not found unless X is a key; an empty HEAD and a HEAD that
\* is exactly "ref:" both fail with "HEAD reference not found".
C10_Original ==
    (call.op = "Head" /\ HeadWasRead) =>
        /\ (HeadData = RawHash /\ ScanReturned /\ RawHash \notin DOMAIN ScanMapping)
               => ret = RefNotFound(RawHash)
        /\ (HeadData = <<>> \/ HeadData = RefColon) => ret = HeadNotFound

\* C10 amended: a raw hash X in HEAD is looked up as a name and fails with
\* reference "X" not found unless X is a key; an empty HEAD fails with
\* "HEAD reference not found" and the handle's refs are not touched; a HEAD
\* that is exactly "ref:" keeps its text, the references are scanned and
\* "ref:" is looked up as a name.
C10_HeadContentIsAName ==
    [][(call'.op = "Head" /\ call'.fault = "none" /\ fsys.head.exists) =>
         LET scan == Refs(Handle(0, <<>>), fsys, call'.faultAt)
             m == scan.st.heap[scan.st.refs]
         IN  /\ (HeadData = RawHash /\ scan.ret.err = NilErr /\ RawHash \notin DOMAIN m)
                    => ret' = RefNotFound(RawHash)
             /\ HeadData = <<>> =>
                    /\ ret' = HeadNotFound
                    /\ UNCHANGED <<dRefs, heap>>
             /\ (HeadData = RefColon /\ scan.ret.err = NilErr) =>
                    /\ dRefs' # 0
                    /\ heap'[dRefs'] = m
                    /\ ret' = IF RefColon \in DOMAIN m
                              THEN Return(m[RefColon], NilErr)
                              ELSE RefNotFound(RefColon)]_vars

\* HEAD holds "ref: " and a newline: Head() scanned the references and
\* reported the name "ref:" as not found.
C10_Witness ==
    /\ call.op = "Head"
    /\ HeadWasRead
    /\ fsys.head.data = symRefPrefix \o <<"\n">>
    /\ dRefs # 0
    /\ ret = RefNotFound(RefColon)

====
